---- MODULE Spec2Model ----
(***************************************************************************)
(* Model of blockvault/core/zkml_inference.py: the commitment, the mock    *)
(* proof synthesis and the verification of ZKMLSummarizer.                 *)
(*                                                                         *)
(* Python values are represented as follows.                               *)
(*   str        a sequence of one-character strings                        *)
(*   int        an integer; a 32-bit-or-wider seed is kept as two 16-bit   *)
(*              limbs [hi, lo] because TLC's integers are 32 bits signed   *)
(*   dict       a record (a function on the keys that are present), or,    *)
(*              where insertion order matters, [isdict, items] with items  *)
(*              a sequence of <<key, value>> pairs in insertion order      *)
(*   list       a sequence                                                 *)
(* hashlib.sha256 and numpy's Mersenne Twister are external; they are      *)
(* stood in for by small deterministic functions of the same shape (bytes  *)
(* to 64 lowercase hex characters; a seeded stream of integers).           *)
(***************************************************************************)
EXTENDS Integers, Sequences, FiniteSets, TLC

VARIABLES
    model_hash,   \* self.model_hash of each summarizer instance
    rng,          \* the process-wide state of np.random
    th,           \* per thread: the call in progress, its locals, its result
    sched,        \* which thread is executing, and the preemptions so far
    first,        \* the metadata and artifact of one earlier completed call
    cm            \* two mappings and their canonical strings / commitments

vars == <<model_hash, rng, th, sched, first, cm>>

----------------------------------------------------------------------------
(* Strings *)

\* the printable ASCII characters 32..95 and 97..126, in code-point order
AsciiLow == <<" ","!","\"","#","$","%","&","'","(",")","*","+",",","-",".","/","0","1","2","3","4","5","6","7","8","9",":",";","<","=",">","?","@","A","B","C","D","E","F","G","H","I","J","K","L","M","N","O","P","Q","R","S","T","U","V","W","X","Y","Z","[","\\","]","^","_">>

AsciiHigh == <<"a","b","c","d","e","f","g","h","i","j","k","l","m","n","o","p","q","r","s","t","u","v","w","x","y","z","{","|","}","~">>

\* ord(c): the code point of a character
OrdOf ==
    [c \in {AsciiLow[i] : i \in DOMAIN AsciiLow} \cup {AsciiHigh[i] : i \in DOMAIN AsciiHigh} |->
        IF \E i \in DOMAIN AsciiLow : AsciiLow[i] = c
        THEN 31 + (CHOOSE i \in DOMAIN AsciiLow : AsciiLow[i] = c)
        ELSE 96 + (CHOOSE i \in DOMAIN AsciiHigh : AsciiHigh[i] = c)]

\* s.encode('utf-8') for ASCII text: one byte per character
Utf8(s) == [i \in 1..Len(s) |-> OrdOf[s[i]]]

\* s[:n]
Take(s, n) == IF Len(s) <= n THEN s ELSE SubSeq(s, 1, n)

\* Python's < on str: lexicographic by code point
RECURSIVE StrLessFrom(_, _, _)
StrLessFrom(a, b, i) ==
    IF i > Len(a) THEN i <= Len(b)
    ELSE IF i > Len(b) THEN FALSE
    ELSE IF OrdOf[a[i]] # OrdOf[b[i]] THEN OrdOf[a[i]] < OrdOf[b[i]]
    ELSE StrLessFrom(a, b, i + 1)

StrLess(a, b) == StrLessFrom(a, b, 1)

DecDigits == <<"0","1","2","3","4","5","6","7","8","9">>

\* str(n) for an int n >= 0
RECURSIVE DecStr(_)
DecStr(n) == IF n < 10 THEN <<DecDigits[n + 1]>> ELSE DecStr(n \div 10) \o <<DecDigits[(n % 10) + 1]>>

HexDigits == <<"0","1","2","3","4","5","6","7","8","9","a","b","c","d","e","f">>

HexVal(c) == (CHOOSE i \in DOMAIN HexDigits : HexDigits[i] = c) - 1

\* int(s, 16) for a string of at most four hex digits
RECURSIVE HexToInt(_, _, _)
HexToInt(s, i, acc) == IF i > Len(s) THEN acc ELSE HexToInt(s, i + 1, acc * 16 + HexVal(s[i]))

----------------------------------------------------------------------------
(* hashlib.sha256(bytes).hexdigest() *)

DigestLen == 64

\* absorb bytes[lo..hi] into the 16-bit state h, in order (the range is halved
\* and the left half's state is computed first, so the evaluation stays shallow)
RECURSIVE Compress(_, _, _, _)
Compress(bytes, lo, hi, h) ==
    IF lo > hi THEN h
    ELSE IF lo = hi THEN (h * 33 + bytes[lo] + 1) % 65536
    ELSE LET mid  == (lo + hi) \div 2
             left == Compress(bytes, lo, mid, h)
         IN  IF left >= 0 THEN Compress(bytes, mid + 1, hi, left) ELSE left

\* squeeze n hex digits out of the state
RECURSIVE HexDigest(_, _)
HexDigest(g, n) ==
    IF n = 0 THEN <<>>
    ELSE LET g2 == (g * 5 + 4) % 65536
         IN  <<HexDigits[(g2 \div 4096) + 1]>> \o HexDigest(g2, n - 1)

sha256_hexdigest(bytes) == HexDigest(Compress(bytes, 1, Len(bytes), 5381), DigestLen)

Sha(s) == sha256_hexdigest(Utf8(s))

----------------------------------------------------------------------------
(* dict values whose iteration order matters *)

\* a dict, its items in insertion order
Dict(items) == [isdict |-> TRUE, items |-> items]

\* a value that is no mapping (None, a list, a number) where one is expected
NotADict == [isdict |-> FALSE, items |-> <<>>]

HasKey(d, k) == \E i \in DOMAIN d.items : d.items[i][1] = k

\* d[k] for a key that is present
DictGet(d, k) == d.items[CHOOSE i \in DOMAIN d.items : d.items[i][1] = k][2]

\* d[k] = v: a new key goes last, a present key keeps its place
DictSet(d, k, v) ==
    IF HasKey(d, k)
    THEN [d EXCEPT !.items = [i \in DOMAIN d.items |-> IF d.items[i][1] = k THEN <<k, v>> ELSE d.items[i]]]
    ELSE [d EXCEPT !.items = Append(@, <<k, v>>)]

\* the mapping a dict denotes, whatever its insertion order
AsMapping(d) == {d.items[i] : i \in DOMAIN d.items}

KeySet(d) == {d.items[i][1] : i \in DOMAIN d.items}

\* Python's < on (key, value) tuples of strings
PairLess(p, q) == StrLess(p[1], q[1]) \/ (p[1] = q[1] /\ StrLess(p[2], q[2]))

\* sorted(items): the items in ascending order
RECURSIVE InsertSorted(_, _)
InsertSorted(p, s) ==
    IF s = <<>> THEN <<p>>
    ELSE IF PairLess(p, Head(s)) THEN <<p>> \o s
    ELSE <<Head(s)>> \o InsertSorted(p, Tail(s))

RECURSIVE SortItems(_)
SortItems(items) == IF items = <<>> THEN <<>> ELSE InsertSorted(Head(items), SortItems(Tail(items)))

sorted(items) == SortItems(items)

\* a plausible slip: the colon is left out
RECURSIVE JoinPairsNoColon(_)
JoinPairsNoColon(pairs) ==
    IF pairs = <<>> THEN <<>>
    ELSE Head(pairs)[1] \o Head(pairs)[2] \o JoinPairsNoColon(Tail(pairs))

\* ''.join(f"{k}:{v}" for k, v in pairs)
RECURSIVE JoinPairs(_)
JoinPairs(pairs) ==
    IF pairs = <<>> THEN <<>>
    ELSE Head(pairs)[1] \o <<":">> \o Head(pairs)[2] \o JoinPairs(Tail(pairs))

\* line 259: the string that is hashed
Canonical(inputs) == JoinPairs(sorted(inputs.items))

\* lines 257-260
_generate_commitment(inputs) == Sha(Canonical(inputs))

\* lines 262-265
_verify_commitment(commitment, inputs) == commitment = _generate_commitment(inputs)

----------------------------------------------------------------------------
(* The summarizer instances and run_inference's metadata *)

unknown_model_hash == <<"u","n","k","n","o","w","n","_","m","o","d","e","l","_","h","a","s","h">>

\* the model directory each instance is constructed on: the files present
\* (as bytes) and whether open() succeeds on them
ModelDirs ==
    << [files |-> ("pytorch_model.bin" :> <<1, 2, 3>>) @@ ("config.json" :> <<4>>), readable |-> TRUE],
       [files |-> ("pytorch_model.bin" :> <<1, 2, 3>>), readable |-> FALSE],
       [files |-> ("config.json" :> <<4>>) @@ ("tokenizer.json" :> <<5, 6>>), readable |-> TRUE] >>

Summarizers == DOMAIN ModelDirs

\* the bytes of those of the named files that exist, in order (lines 241-245)
RECURSIVE ReadExisting(_, _)
ReadExisting(dir, names) ==
    IF names = <<>> THEN <<>>
    ELSE (IF Head(names) \in DOMAIN dir.files THEN dir.files[Head(names)] ELSE <<>>)
         \o ReadExisting(dir, Tail(names))

\* lines 228-250
_get_model_hash(dir) ==
    IF ~dir.readable THEN unknown_model_hash
    ELSE IF "pytorch_model.bin" \in DOMAIN dir.files
         THEN sha256_hexdigest(dir.files["pytorch_model.bin"])
         ELSE sha256_hexdigest(ReadExisting(dir, <<"config.json", "tokenizer.json">>))

\* lines 252-255, mh being self.model_hash
_generate_verification_key(mh, text, summary) == Sha(Take(text, 100) \o summary \o mh)

\* lines 113-124, mh being self.model_hash and ts the clock reading
Metadata(mh, text, summary, ts) ==
    [input_hash       |-> Sha(text),
     output_hash      |-> Sha(summary),
     model_hash       |-> mh,
     input_length     |-> Len(text),
     output_length    |-> Len(summary),
     max_length       |-> 150,
     min_length       |-> 30,
     timestamp        |-> ts,
     model_name       |-> <<"b","a","r","t","-","l","a","r","g","e","-","c","n","n">>,
     verification_key |-> _generate_verification_key(mh, text, summary)]

----------------------------------------------------------------------------
(* generate_zk_proof *)

K_input_hash == <<"i","n","p","u","t","_","h","a","s","h">>
K_output_hash == <<"o","u","t","p","u","t","_","h","a","s","h">>
K_model_hash == <<"m","o","d","e","l","_","h","a","s","h">>
K_input_length == <<"i","n","p","u","t","_","l","e","n","g","t","h">>
K_output_length == <<"o","u","t","p","u","t","_","l","e","n","g","t","h">>
K_verification_key == <<"v","e","r","i","f","i","c","a","t","i","o","n","_","k","e","y">>

\* the metadata keys generate_zk_proof reads, in the order it reads them
RequiredKeys == <<"input_hash", "output_hash", "model_hash", "input_length", "output_length", "verification_key">>

MissingKey(metadata, keys) == \E i \in DOMAIN keys : keys[i] \notin DOMAIN metadata

\* lines 147-154
CircuitInputs(metadata) ==
    Dict(<< <<K_input_hash, metadata.input_hash>>,
            <<K_output_hash, metadata.output_hash>>,
            <<K_model_hash, metadata.model_hash>>,
            <<K_input_length, DecStr(metadata.input_length)>>,
            <<K_output_length, DecStr(metadata.output_length)>>,
            <<K_verification_key, metadata.verification_key>> >>)

PrefixLen == 16

SeedHexLen == 8

\* int(commitment[:8], 16), as two 16-bit limbs
SeedOf(commitment) ==
    LET s == Take(commitment, SeedHexLen)
    IN  [hi |-> HexToInt(SubSeq(s, 1, 4), 1, 0), lo |-> HexToInt(SubSeq(s, 5, 8), 1, 0)]

\* seed + n for a small n
SeedPlus(seed, n) ==
    LET lo == seed.lo + n IN [hi |-> seed.hi + (lo \div 65536), lo |-> lo % 65536]

\* np.random.seed accepts 0 <= seed <= 2**32 - 1 and raises ValueError otherwise
SeedInRange(seed) == seed.hi < 65536

\* the generator's state after np.random.seed(seed)
np_random_seed(seed) == (seed.hi * 31 + seed.lo) % 65521

\* the generator's state after one draw
np_random_next(r) == (r * 75 + 74) % 65537

\* str(np.random.randint(1, 1000)) read off the state after the draw
randint_str(r) == DecStr(1 + (r % 999))

\* the two helpers' parameters: the seed's offset and the number of draws
\* (lines 270-273 for pi_a and pi_c, lines 278-281 for pi_b)
Suffix == [a |-> <<"a">>, b |-> <<"b">>, c |-> <<"c">>]

SeedOffset == [a |-> 0, b |-> Len(Suffix.b), c |-> 0]

Draws == [a |-> 3, b |-> 6, c |-> 3]

StageSeed(commitment, stage) == SeedPlus(SeedOf(commitment), SeedOffset[stage])

\* line 281: the six draws as three rows of two
AsMatrix(d) == << <<d[1], d[2]>>, <<d[3], d[4]>>, <<d[5], d[6]>> >>

\* a plausible slip: the public signals are the full hashes
ProofUntruncated(metadata, circuit_inputs, commitment, pi_a, pi_b, pi_c) ==
    [pi_a           |-> pi_a,
     pi_b           |-> pi_b,
     pi_c           |-> pi_c,
     protocol       |-> "groth16",
     curve          |-> "bn128",
     public_signals |-> << metadata.input_hash, metadata.output_hash,
                           metadata.model_hash, metadata.verification_key >>,
     commitment     |-> commitment,
     circuit_inputs |-> circuit_inputs]

\* lines 161-175
Proof(metadata, circuit_inputs, commitment, pi_a, pi_b, pi_c) ==
    [pi_a           |-> pi_a,
     pi_b           |-> pi_b,
     pi_c           |-> pi_c,
     protocol       |-> "groth16",
     curve          |-> "bn128",
     public_signals |-> << Take(metadata.input_hash, PrefixLen),
                           Take(metadata.output_hash, PrefixLen),
                           Take(metadata.model_hash, PrefixLen),
                           Take(metadata.verification_key, PrefixLen) >>,
     commitment     |-> commitment,
     circuit_inputs |-> circuit_inputs]

\* n draws in a row from state r: the strings drawn
RECURSIVE DrawList(_, _)
DrawList(r, n) ==
    IF n = 0 THEN <<>>
    ELSE LET r2 == np_random_next(r) IN <<randint_str(r2)>> \o DrawList(r2, n - 1)

\* lines 267-273 run without interruption
_generate_proof_point(commitment, suffix) ==
    DrawList(np_random_seed(SeedOf(commitment)), 3)

\* lines 275-281 run without interruption
_generate_proof_matrix(commitment, suffix) ==
    AsMatrix(DrawList(np_random_seed(SeedPlus(SeedOf(commitment), Len(suffix))), 6))

\* generate_zk_proof run without interruption: the artifact, or "raised"
GenAlone(metadata) ==
    IF MissingKey(metadata, RequiredKeys) THEN [raised |-> TRUE]
    ELSE LET ci == CircuitInputs(metadata)
             c  == _generate_commitment(ci)
         IN  IF ~SeedInRange(SeedPlus(SeedOf(c), Len(Suffix.b))) THEN [raised |-> TRUE]
             ELSE Proof(metadata, ci, c, _generate_proof_point(c, Suffix.a),
                        _generate_proof_matrix(c, Suffix.b), _generate_proof_point(c, Suffix.c))

----------------------------------------------------------------------------
(* Inputs and bounds *)

NThreads == 2

Threads == 1..NThreads

MaxTimestamp == 0

\* readings of int(os.times().elapsed * 1000)
Timestamps == 0..MaxTimestamp

Texts == { <<"H","e","l","l","o"," ","w","o","r","l","d",".">>, <<"H","e","l","l","o"," ","w","o","r","l","d","!">> }

Summaries == { <<"H","e","l","l","o",".">>, <<"H","i",".">> }

\* what a caller may do to the metadata before passing it on
MetaKinds ==
    {"as_built", "no_input_hash", "no_output_hash", "no_model_hash", "no_input_length",
     "no_output_length", "no_verification_key", "no_timestamp", "bad_input_hash"}

\* a value that is no hex digest
BadInputHash == <<"x", "u", "e", "f">>

Without(rec, key) == [k \in DOMAIN rec \ {key} |-> rec[k]]

MetaVariant(kind, m) ==
    CASE kind = "as_built"            -> m
      [] kind = "no_input_hash"       -> Without(m, "input_hash")
      [] kind = "no_output_hash"      -> Without(m, "output_hash")
      [] kind = "no_model_hash"       -> Without(m, "model_hash")
      [] kind = "no_input_length"     -> Without(m, "input_length")
      [] kind = "no_output_length"    -> Without(m, "output_length")
      [] kind = "no_verification_key" -> Without(m, "verification_key")
      [] kind = "no_timestamp"        -> Without(m, "timestamp")
      [] kind = "bad_input_hash"    -> [m EXCEPT !.input_hash = BadInputHash]

\* circuit inputs of somebody else's making
ForgedInputs == Dict(<< <<K_input_hash, Sha(<<>>)>> >>)

\* what may have happened to an artifact between synthesis and verification
TamperKinds ==
    {"genuine", "drop_pi_a", "drop_pi_b", "drop_pi_c", "drop_public_signals",
     "drop_commitment", "drop_circuit_inputs", "signals_0", "signals_1", "signals_2",
     "signals_3", "signals_5", "short_pi_a", "short_pi_b", "long_pi_c", "inputs_not_dict",
     "forged_inputs", "other_inputs", "other_commitment", "other_key_signal"}

Tamper(kind, p) ==
    CASE kind = "genuine"             -> p
      [] kind = "drop_pi_a"           -> Without(p, "pi_a")
      [] kind = "drop_pi_b"           -> Without(p, "pi_b")
      [] kind = "drop_pi_c"           -> Without(p, "pi_c")
      [] kind = "drop_public_signals" -> Without(p, "public_signals")
      [] kind = "drop_commitment"     -> Without(p, "commitment")
      [] kind = "drop_circuit_inputs" -> Without(p, "circuit_inputs")
      [] kind = "signals_0"           -> [p EXCEPT !.public_signals = <<>>]
      [] kind = "signals_1"           -> [p EXCEPT !.public_signals = SubSeq(@, 1, 1)]
      [] kind = "signals_2"           -> [p EXCEPT !.public_signals = SubSeq(@, 1, 2)]
      [] kind = "signals_3"           -> [p EXCEPT !.public_signals = SubSeq(@, 1, 3)]
      [] kind = "signals_5"           -> [p EXCEPT !.public_signals = Append(@, @[1])]
      [] kind = "short_pi_a"          -> [p EXCEPT !.pi_a = <<>>]
      [] kind = "short_pi_b"          -> [p EXCEPT !.pi_b = SubSeq(@, 1, 2)]
      [] kind = "long_pi_c"           -> [p EXCEPT !.pi_c = Append(@, @[1])]
      [] kind = "inputs_not_dict"     -> [p EXCEPT !.circuit_inputs = NotADict]
      [] kind = "forged_inputs"       -> [p EXCEPT !.circuit_inputs = ForgedInputs,
                                                     !.commitment = _generate_commitment(ForgedInputs)]
      [] kind = "other_inputs"        -> [p EXCEPT !.circuit_inputs = ForgedInputs]
      [] kind = "other_commitment"    -> [p EXCEPT !.commitment = Sha(<<>>)]
      [] kind = "other_key_signal"    -> [p EXCEPT !.public_signals[4] = Take(Sha(<<>>), PrefixLen)]

----------------------------------------------------------------------------
(* The state of a thread *)

\* stands for a record-valued local that is not set
NoRec == [unset |-> TRUE]

Idle ==
    [pc |-> "idle",
     self |-> 0, text |-> <<>>, summary |-> <<>>, meta |-> NoRec,      \* run_inference
     kind |-> "", arg |-> NoRec, circuit_inputs |-> NotADict,          \* generate_zk_proof
     commitment |-> <<>>, stage |-> "", draws |-> <<>>,
     pi_a |-> <<>>, pi_b |-> <<>>, pi_c |-> <<>>, proof |-> NoRec,
     vself |-> 0, vtext |-> <<>>, vsummary |-> <<>>, tamper |-> "",    \* verify_inference
     vproof |-> NoRec, input_hash |-> <<>>, output_hash |-> <<>>,
     hash_matches |-> FALSE, commitment_valid |-> FALSE,
     ret |-> NoRec, exc |-> "", log |-> <<>>]

\* thread t is the one executing
Running(t) == sched.running = t

\* thread t holds no call and no result
Finished(t) == th[t].pc \in {"idle", "gen_done", "gen_raised", "ver_done"}

----------------------------------------------------------------------------
(* run_inference and generate_zk_proof, one step at a time *)

\* lines 93-127: the model's output is any summary; the metadata is built
run_inference(t, s, text, summary, ts) ==
    /\ Running(t)
    /\ th[t].pc = "idle"
    /\ th' = [th EXCEPT ![t] = [Idle EXCEPT !.pc = "inferred", !.self = s, !.text = text,
                                            !.summary = summary,
                                            !.meta = Metadata(model_hash[s], text, summary, ts)]]
    /\ UNCHANGED <<model_hash, rng, sched, first, cm>>

\* the call generate_zk_proof(text, summary, metadata)
CallGenerate(t, kind) ==
    /\ Running(t)
    /\ th[t].pc = "inferred"
    /\ th' = [th EXCEPT ![t].pc = "gen_inputs", ![t].kind = kind,
                        ![t].arg = MetaVariant(kind, th[t].meta)]
    /\ UNCHANGED <<model_hash, rng, sched, first, cm>>

\* a plausible slip: the handler returns an empty artifact instead of raising
GenExceptReturns(rec, e) ==
    [rec EXCEPT !.pc = "gen_done", !.exc = e,
                !.proof = [pi_a |-> <<>>, pi_b |-> <<>>, pi_c |-> <<>>, protocol |-> "groth16",
                           curve |-> "bn128", public_signals |-> <<>>, commitment |-> <<>>,
                           circuit_inputs |-> Dict(<<>>)]]

\* lines 180-182: any exception leaves as RuntimeError, no artifact is returned
GenExcept(rec, e) == [rec EXCEPT !.pc = "gen_raised", !.exc = e]

\* lines 147-157
GenInputs(t) ==
    /\ Running(t)
    /\ th[t].pc = "gen_inputs"
    /\ th' = [th EXCEPT ![t] =
                IF MissingKey(th[t].arg, RequiredKeys)
                THEN GenExcept(th[t], "KeyError")
                ELSE LET ci == CircuitInputs(th[t].arg)
                     IN  [th[t] EXCEPT !.pc = "seed", !.stage = "a", !.circuit_inputs = ci,
                                       !.commitment = _generate_commitment(ci)]]
    /\ UNCHANGED <<model_hash, rng, sched, first, cm>>

\* a plausible slip: the generator is left as it was
NoReseed(r, seed) == r

\* lines 271 and 279: the generator's state after np.random.seed(seed), r being
\* its state before
Reseed(r, seed) == np_random_seed(seed)

\* lines 270-271 and 278-279
GenSeed(t) ==
    /\ Running(t)
    /\ th[t].pc = "seed"
    /\ LET seed == StageSeed(th[t].commitment, th[t].stage)
       IN  IF SeedInRange(seed)
           THEN /\ rng' = Reseed(rng, seed)
                /\ th' = [th EXCEPT ![t].pc = "draw", ![t].draws = <<>>]
           ELSE /\ rng' = rng
                /\ th' = [th EXCEPT ![t] = GenExcept(th[t], "ValueError")]
    /\ UNCHANGED <<model_hash, sched, first, cm>>

\* where the draws of a stage go once all are made
StoreDraws(rec, d) ==
    CASE rec.stage = "a" -> [rec EXCEPT !.pi_a = d, !.draws = <<>>, !.stage = "b", !.pc = "seed"]
      [] rec.stage = "b" -> [rec EXCEPT !.pi_b = AsMatrix(d), !.draws = <<>>, !.stage = "c", !.pc = "seed"]
      [] rec.stage = "c" -> [rec EXCEPT !.pi_c = d, !.draws = <<>>, !.stage = "", !.pc = "assemble"]

\* lines 273 and 281: one np.random.randint(1, 1000) of the comprehension
GenDraw(t) ==
    /\ Running(t)
    /\ th[t].pc = "draw"
    /\ rng' = np_random_next(rng)
    /\ LET d == Append(th[t].draws, randint_str(rng'))
       IN  th' = [th EXCEPT ![t] = IF Len(d) = Draws[th[t].stage]
                                   THEN StoreDraws(th[t], d)
                                   ELSE [th[t] EXCEPT !.draws = d]]
    /\ UNCHANGED <<model_hash, sched, first, cm>>

\* lines 161-178
GenReturn(t) ==
    /\ Running(t)
    /\ th[t].pc = "assemble"
    /\ th' = [th EXCEPT ![t].pc = "gen_done",
                        ![t].proof = Proof(th[t].arg, th[t].circuit_inputs, th[t].commitment,
                                           th[t].pi_a, th[t].pi_b, th[t].pi_c)]
    /\ UNCHANGED <<model_hash, rng, sched, first, cm>>

----------------------------------------------------------------------------
(* verify_inference, one step at a time *)

\* the call verify_inference(text, summary, proof) on instance v
CallVerify(t, v, vtext, vsummary, kind) ==
    /\ Running(t)
    /\ th[t].pc = "gen_done"
    /\ th' = [th EXCEPT ![t].pc = "ver_hash", ![t].vself = v, ![t].vtext = vtext,
                        ![t].vsummary = vsummary, ![t].tamper = kind,
                        ![t].vproof = Tamper(kind, th[t].proof)]
    /\ UNCHANGED <<model_hash, rng, sched, first, cm>>

\* a plausible slip: no handler, the exception reaches the caller
VerifyPropagates(rec, e) == [rec EXCEPT !.pc = "ver_raised", !.exc = e]

\* lines 224-226: any exception is logged and False is returned
VerifyExcept(rec, e) == [rec EXCEPT !.pc = "ver_done", !.ret = [valid |-> FALSE], !.exc = e]

\* lines 198-199
VerHash(t) ==
    /\ Running(t)
    /\ th[t].pc = "ver_hash"
    /\ th' = [th EXCEPT ![t].pc = "ver_signals",
                        ![t].input_hash = Sha(th[t].vtext),
                        ![t].output_hash = Sha(th[t].vsummary),
                        ![t].log = @ \o <<"hash_text", "hash_summary">>]
    /\ UNCHANGED <<model_hash, rng, sched, first, cm>>

\* a plausible slip: the input hash is not compared
HashMatchesNoInput(proof, ih, oh, mh) ==
    IF "public_signals" \notin DOMAIN proof THEN [exc |-> "KeyError", val |-> FALSE]
    ELSE LET ps == proof.public_signals
         IN  IF Len(ps) < 2 THEN [exc |-> "IndexError", val |-> FALSE]
             ELSE IF ps[2] # Take(oh, PrefixLen) THEN [exc |-> "", val |-> FALSE]
             ELSE IF Len(ps) < 3 THEN [exc |-> "IndexError", val |-> FALSE]
             ELSE [exc |-> "", val |-> ps[3] = Take(mh, PrefixLen)]

\* lines 202-206, with the left-to-right, short-circuit evaluation of `and`:
\* the exception raised, or the value of hash_matches
HashMatches(proof, ih, oh, mh) ==
    IF "public_signals" \notin DOMAIN proof THEN [exc |-> "KeyError", val |-> FALSE]
    ELSE LET ps == proof.public_signals
         IN  IF Len(ps) < 1 THEN [exc |-> "IndexError", val |-> FALSE]
             ELSE IF ps[1] # Take(ih, PrefixLen) THEN [exc |-> "", val |-> FALSE]
             ELSE IF Len(ps) < 2 THEN [exc |-> "IndexError", val |-> FALSE]
             ELSE IF ps[2] # Take(oh, PrefixLen) THEN [exc |-> "", val |-> FALSE]
             ELSE IF Len(ps) < 3 THEN [exc |-> "IndexError", val |-> FALSE]
             ELSE [exc |-> "", val |-> ps[3] = Take(mh, PrefixLen)]

VerSignals(t) ==
    /\ Running(t)
    /\ th[t].pc = "ver_signals"
    /\ LET r == HashMatches(th[t].vproof, th[t].input_hash, th[t].output_hash,
                            model_hash[th[t].vself])
       IN  th' = [th EXCEPT ![t] =
                    IF r.exc # "" THEN VerifyExcept(th[t], r.exc)
                    ELSE [th[t] EXCEPT !.pc = "ver_commit", !.hash_matches = r.val,
                                       !.log = Append(@, "compare_signals")]]
    /\ UNCHANGED <<model_hash, rng, sched, first, cm>>

\* line 209: the exception raised, or the value of commitment_valid
CommitmentValid(proof) ==
    IF "commitment" \notin DOMAIN proof \/ "circuit_inputs" \notin DOMAIN proof
    THEN [exc |-> "KeyError", val |-> FALSE]
    ELSE IF ~proof.circuit_inputs.isdict THEN [exc |-> "AttributeError", val |-> FALSE]
    ELSE [exc |-> "", val |-> _verify_commitment(proof.commitment, proof.circuit_inputs)]

VerCommitment(t) ==
    /\ Running(t)
    /\ th[t].pc = "ver_commit"
    /\ LET r == CommitmentValid(th[t].vproof)
       IN  th' = [th EXCEPT ![t] =
                    IF r.exc # "" THEN VerifyExcept(th[t], r.exc)
                    ELSE [th[t] EXCEPT !.pc = "ver_struct", !.commitment_valid = r.val,
                                       !.log = Append(@, "recompute_commitment")]]
    /\ UNCHANGED <<model_hash, rng, sched, first, cm>>

\* a plausible slip: the number of public signals is not checked
StructureValidNoCount(proof) ==
    "pi_a" \in DOMAIN proof /\ "pi_b" \in DOMAIN proof /\ "pi_c" \in DOMAIN proof

\* lines 212-217
StructureValid(proof) ==
    /\ "pi_a" \in DOMAIN proof
    /\ "pi_b" \in DOMAIN proof
    /\ "pi_c" \in DOMAIN proof
    /\ Len(proof.public_signals) = 4

\* lines 212-222
VerStructure(t) ==
    /\ Running(t)
    /\ th[t].pc = "ver_struct"
    /\ th' = [th EXCEPT ![t].pc = "ver_done",
                        ![t].log = Append(@, "check_structure"),
                        ![t].ret = [valid |-> /\ th[t].hash_matches
                                              /\ th[t].commitment_valid
                                              /\ StructureValid(th[t].vproof)]]
    /\ UNCHANGED <<model_hash, rng, sched, first, cm>>

\* the caller is done with the call's outcome
Return(t) ==
    /\ Running(t)
    /\ th[t].pc \in {"gen_done", "gen_raised", "ver_done"}
    /\ th' = [th EXCEPT ![t] = Idle]
    /\ UNCHANGED <<model_hash, rng, sched, first, cm>>

\* an observer keeps the first artifact it sees, with the metadata it came from
Observe(t) ==
    /\ Running(t)
    /\ th[t].pc = "gen_done"
    /\ first = NoRec
    /\ first' = [unset |-> FALSE, thread |-> t, arg |-> th[t].arg, proof |-> th[t].proof]
    /\ UNCHANGED <<model_hash, rng, th, sched, cm>>

----------------------------------------------------------------------------
(* _generate_commitment applied to two mappings *)

MaxPairs == 2

CommitKeys == { <<"a">>, <<"b">>, <<"a", "b">> }

CommitValues == { <<>>, <<"b">>, <<"b", ":">> }

\* d[k] = v on the first or the second mapping
SetItem(which, k, v) ==
    /\ cm.pc = "build"
    /\ HasKey(cm[which], k) \/ Len(cm[which].items) < MaxPairs
    /\ cm' = [cm EXCEPT ![which] = DictSet(@, k, v)]
    /\ UNCHANGED <<model_hash, rng, th, sched, first>>

\* lines 259-260 on both
Commit ==
    /\ cm.pc = "build"
    /\ cm' = [cm EXCEPT !.pc = "done",
                        !.s1 = Canonical(cm.d1), !.c1 = _generate_commitment(cm.d1),
                        !.s2 = Canonical(cm.d2), !.c2 = _generate_commitment(cm.d2)]
    /\ UNCHANGED <<model_hash, rng, th, sched, first>>

----------------------------------------------------------------------------
(* Scheduling *)

MaxPreemptions == 2

\* callers that serialise their calls: another thread runs only between calls
TakeTurn(t) ==
    /\ ~Running(t)
    /\ \A u \in Threads : th[u].pc = "idle"
    /\ sched' = [sched EXCEPT !.running = t]
    /\ UNCHANGED <<model_hash, rng, th, first, cm>>

\* no locking: the interpreter may switch threads between any two steps; a
\* switch away from a thread that is inside a call counts as a preemption
Switch(t) ==
    /\ ~Running(t)
    /\ Finished(sched.running) \/ sched.preemptions < MaxPreemptions
    /\ sched' = [running |-> t,
                 preemptions |-> IF Finished(sched.running) THEN sched.preemptions
                                 ELSE sched.preemptions + 1]
    /\ UNCHANGED <<model_hash, rng, th, first, cm>>

----------------------------------------------------------------------------
(* Specifications *)

\* lines 34-46 for each instance; any state of the generator; no call in progress
Init ==
    /\ model_hash = [s \in Summarizers |-> _get_model_hash(ModelDirs[s])]
    /\ rng \in {0, 1}
    /\ th = [t \in Threads |-> Idle]
    /\ sched = [running |-> 1, preemptions |-> 0]
    /\ first = NoRec
    /\ cm = [pc |-> "build", d1 |-> Dict(<<>>), d2 |-> Dict(<<>>),
             s1 |-> <<>>, s2 |-> <<>>, c1 |-> <<>>, c2 |-> <<>>]

\* calls made one after another: inference, synthesis, verification
Next ==
    \E t \in Threads :
        \/ TakeTurn(t)
        \/ \E s \in Summarizers, text \in Texts, summary \in Summaries, ts \in Timestamps :
              run_inference(t, s, text, summary, ts)
        \/ \E kind \in MetaKinds : CallGenerate(t, kind)
        \/ GenInputs(t)
        \/ GenSeed(t)
        \/ GenDraw(t)
        \/ GenReturn(t)
        \/ \E v \in Summarizers, vtext \in Texts, vsummary \in Summaries, kind \in TamperKinds :
              CallVerify(t, v, vtext, vsummary, kind)
        \/ VerHash(t)
        \/ VerSignals(t)
        \/ VerCommitment(t)
        \/ VerStructure(t)
        \/ Return(t)

Spec == Init /\ [][Next]_vars

\* syntheses made one after another, an observer keeping an earlier result
NextGen ==
    \E t \in Threads :
        \/ TakeTurn(t)
        \/ \E s \in {1, 2}, text \in Texts, ts \in Timestamps :
              run_inference(t, s, text, <<"H", "i", ".">>, ts)
        \/ \E kind \in {"as_built", "no_model_hash", "bad_input_hash"} : CallGenerate(t, kind)
        \/ GenInputs(t)
        \/ GenSeed(t)
        \/ GenDraw(t)
        \/ GenReturn(t)
        \/ Observe(t)
        \/ Return(t)

SpecGen == Init /\ [][NextGen]_vars

\* one synthesis per thread, the threads running at once without locking
NextConc ==
    \E t \in Threads :
        \/ Switch(t)
        \/ \E text \in Texts : run_inference(t, 1, text, <<"H", "i", ".">>, 0)
        \/ CallGenerate(t, "as_built")
        \/ GenInputs(t)
        \/ GenSeed(t)
        \/ GenDraw(t)
        \/ GenReturn(t)

SpecConc == Init /\ [][NextConc]_vars

\* two mappings built item by item, then committed to
NextCommit ==
    \/ \E which \in {"d1", "d2"}, k \in CommitKeys, v \in CommitValues : SetItem(which, k, v)
    \/ Commit

SpecCommit == Init /\ [][NextCommit]_vars

----------------------------------------------------------------------------
(* Properties of verify_inference, under Spec *)

\* thread t holds the outcome of verifying an artifact
Verified(t) == th[t].pc = "ver_done"

\* the artifact came from generate_zk_proof on the metadata run_inference built,
\* and reached verify_inference as it was
Untouched(t) == th[t].kind = "as_built" /\ th[t].tamper = "genuine"

\* verification is asked about the original text, summary and summarizer
SameClaim(t) ==
    /\ th[t].vtext = th[t].text
    /\ th[t].vsummary = th[t].summary
    /\ th[t].vself = th[t].self

\* the signal of a at verification differs from the signal of b at inference
SignalDiffers(a, b) == Take(a, PrefixLen) # Take(b, PrefixLen)

\* the text, the summary or the model hash was changed, visibly in its signal
ClaimTampered(t) ==
    \/ SignalDiffers(Sha(th[t].vtext), Sha(th[t].text))
    \/ SignalDiffers(Sha(th[t].vsummary), Sha(th[t].summary))
    \/ SignalDiffers(model_hash[th[t].vself], model_hash[th[t].self])

\* C1: an artifact synthesized from the metadata of an inference is accepted
\* when verified, unchanged, against the same text and summary on the same
\* summarizer
BindingSoundness ==
    \A t \in Threads :
        (Verified(t) /\ Untouched(t) /\ SameClaim(t)) => th[t].ret = [valid |-> TRUE]

\* C1: such a verification has happened, on a summarizer with a weights file
BindingSoundnessWitness ==
    \E t \in Threads :
        /\ Verified(t) /\ Untouched(t) /\ SameClaim(t)
        /\ th[t].self = 1
        /\ th[t].exc = ""

VerifyNeverRaises ==
    \A t \in Threads :
        /\ th[t].pc # "ver_raised"
        /\ Verified(t) => th[t].ret \in {[valid |-> TRUE], [valid |-> FALSE]}
        /\ (Verified(t) /\ th[t].exc # "") => th[t].ret = [valid |-> FALSE]

\* C3: an artifact without public signals made the comparison raise
VerifyNeverRaisesWitness ==
    \E t \in Threads :
        /\ Verified(t)
        /\ th[t].tamper = "drop_public_signals"
        /\ th[t].exc = "KeyError"

\* an artifact with three public signals and nothing else wrong
ThreeSignals(t) == Verified(t) /\ th[t].tamper = "signals_3"

----------------------------------------------------------------------------
(* Properties of generate_zk_proof *)

\* thread t holds an artifact that generate_zk_proof returned
Synthesized(t) == th[t].pc = "gen_done"

\* C5: calls made one after another with the same metadata return the same
\* artifact, which is the one a call running alone returns, whatever was
\* synthesized in between
Determinism ==
    \A t \in Threads :
        Synthesized(t) =>
            /\ th[t].proof = GenAlone(th[t].arg)
            /\ (~first.unset /\ first.arg = th[t].arg) => th[t].proof = first.proof

\* C5: a later call, by another thread, was given the metadata of the first
DeterminismWitness ==
    \E t \in Threads :
        /\ Synthesized(t)
        /\ ~first.unset
        /\ first.thread # t
        /\ first.arg = th[t].arg

\* C6 as stated: calls running at once on different metadata each return what
\* they return when running alone
ConcurrencySafety ==
    (\A t, u \in Threads : (t # u /\ th[t].kind # "" /\ th[u].kind # "") => th[t].arg # th[u].arg)
        => \A t \in Threads : Synthesized(t) => th[t].proof = GenAlone(th[t].arg)

\* v is a hex digest of the full length
IsHexDigest(v) ==
    Len(v) = DigestLen /\ \A i \in DOMAIN v : \E j \in DOMAIN HexDigits : HexDigits[j] = v[i]

\* some hash field of the metadata is present and is no hex digest
BadDigest(m) ==
    \E k \in {"input_hash", "output_hash", "model_hash"} : k \in DOMAIN m /\ ~IsHexDigest(m[k])

\* the call of thread t got past the reading of the metadata
PastInputs(t) == th[t].kind # "" /\ th[t].pc \notin {"gen_inputs", "gen_raised"}

----------------------------------------------------------------------------
(* What acceptance by verify_inference implies, under Spec *)

\* the shapes generate_zk_proof gives the parts of an artifact
WellShaped(p) ==
    /\ Len(p.public_signals) = 4
    /\ Len(p.pi_a) = 3
    /\ Len(p.pi_c) = 3
    /\ Len(p.pi_b) = 3
    /\ \A i \in DOMAIN p.pi_b : Len(p.pi_b[i]) = 2

\* C8 as stated: an accepted artifact has 4 public signals, 3 entries in pi_a
\* and in pi_c, and 3 rows of 2 entries in pi_b
StructuralValidityEnforced ==
    \A t \in Threads :
        (Verified(t) /\ th[t].ret.valid) => WellShaped(th[t].vproof)

\* the prefixes of the committed inputs are the public signals
InputsMatchSignals(p) ==
    LET ci == p.circuit_inputs
        ps == p.public_signals
    IN  /\ ci.isdict
        /\ \A k \in {K_input_hash, K_output_hash, K_model_hash, K_verification_key} : HasKey(ci, k)
        /\ Take(DictGet(ci, K_input_hash), PrefixLen) = ps[1]
        /\ Take(DictGet(ci, K_output_hash), PrefixLen) = ps[2]
        /\ Take(DictGet(ci, K_model_hash), PrefixLen) = ps[3]
        /\ Take(DictGet(ci, K_verification_key), PrefixLen) = ps[4]

\* C9 as stated: an accepted artifact's commitment is the commitment of its
\* circuit inputs, and those inputs are the ones its public signals show
AcceptanceBindsInputs ==
    \A t \in Threads :
        (Verified(t) /\ th[t].ret.valid) =>
            /\ _verify_commitment(th[t].vproof.commitment, th[t].vproof.circuit_inputs)
            /\ InputsMatchSignals(th[t].vproof)

----------------------------------------------------------------------------
(* Properties of _generate_commitment, under SpecCommit *)

\* no value of the mapping holds a colon
ColonFree(d) == \A i \in DOMAIN d.items : \A j \in DOMAIN d.items[i][2] : d.items[i][2][j] # ":"

\* both mappings were committed to
Committed == cm.pc = "done"

\* C10 as stated: mappings that differ in a key or a value have different
\* canonical strings, and the order of insertion plays no part
CanonicalInjective ==
    Committed =>
        /\ AsMapping(cm.d1) # AsMapping(cm.d2) => cm.s1 # cm.s2
        /\ AsMapping(cm.d1) = AsMapping(cm.d2) => (cm.s1 = cm.s2 /\ cm.c1 = cm.c2)

\* C10: mappings with the same keys, no colon in any value, and a different
\* value somewhere have different canonical strings; mappings with the same
\* items have the same canonical string and commitment whatever the order of
\* insertion
CanonicalInjectiveSameKeys ==
    Committed =>
        /\ (/\ KeySet(cm.d1) = KeySet(cm.d2)
            /\ ColonFree(cm.d1) /\ ColonFree(cm.d2)
            /\ AsMapping(cm.d1) # AsMapping(cm.d2)) => cm.s1 # cm.s2
        /\ AsMapping(cm.d1) = AsMapping(cm.d2) => (cm.s1 = cm.s2 /\ cm.c1 = cm.c2)

\* C10: two mappings with the same two keys, colon-free and different
CanonicalInjectiveSameKeysWitness ==
    /\ Committed
    /\ KeySet(cm.d1) = KeySet(cm.d2)
    /\ Len(cm.d1.items) = 2
    /\ ColonFree(cm.d1) /\ ColonFree(cm.d2)
    /\ AsMapping(cm.d1) # AsMapping(cm.d2)
====
